---- MODULE Spec2Model ----
(***************************************************************************)
(* Wake-word engine of the Orion front-end: the useWakeWord hook, its      *)
(* WakeWordAudioProcessor (local capture pipeline) and its WakeWordService *)
(* (reconnecting WebSocket transport), as a state machine.                 *)
(*                                                                         *)
(* Confidences and thresholds are in hundredths (0.7 is 70).  One step of  *)
(* the model is one JavaScript task: a call made by the consumer, a timer  *)
(* firing, a promise settling (with the chain of await continuations that  *)
(* runs after it), or one event delivered by the browser.                  *)
(***************************************************************************)
EXTENDS Integers, FiniteSets, Sequences, TLC

\* ------------------------------------------------------------- bounds
\* WakeWordAudioProcessor objects that exist at the same time
MaxProcessors == 2
\* WakeWordService objects that exist at the same time
MaxServices == 2
\* startWakeWorker calls in progress plus getBattery() promises unsettled
MaxBatteryPromises == 2
\* close events in a row (no open in between) the peer or the network causes
\* on the sockets of one service, in the specification of the whole engine
MaxPeerCloses == 1
\* unparseable payloads counted on the transport (the count saturates here)
MaxDropped == 1
\* WakeWordAudioProcessor.sampleRate, scaled down (16000 in the program): the
\* circular buffer holds sampleRate * 2 samples, a chunk is sampleRate samples
sampleRate == 3
\* WakeWordAudioProcessor.bufferSize, scaled down (4096 in the program): the
\* longest frame onaudioprocess delivers
bufferSize == 2
\* samples written to one processor's circular buffer; more than its
\* capacity, so that bufferIndex wraps and a chunk spans the wrap
MaxWritten == 9
\* pieces (words, blanks, punctuation marks) a transcript is made of
MaxPieces == 4
\* timers of one kind a WakeWordDetector has pending at the same time
MaxDetectorTimers == 2
\* connect() calls made on the WakeWordService driven on its own
MaxConnectCalls == 3
\* disconnect() calls made on it
MaxDisconnectCalls == 2
\* cleanup() calls made on the WakeWordAudioProcessor when its teardown is
\* followed
MaxCleanupCalls == 2
\* recognitions of useSpeech that were stopped and have not ended yet
MaxDetached == 2
\* restart timers of the useSpeech language effect pending at the same time
MaxSpeechTimers == 2

\* ------------------------------------------------- program constants
maxReconnectAttempts == 5
\* WakeWordService.reconnectDelay, in ms
reconnectDelay == 1000
\* WakeWordAudioProcessor.wakeWordThreshold = 0.7
DefaultThreshold == 70
\* DEFAULT_CONFIG.sensitivity = 0.7
DefaultSensitivity == 70
\* WakeWordDetector.confidenceThreshold = 0.7
confidenceThreshold == 70

\* confidences a classifier (local mock or remote peer) can report
Confidences == {0, 30, 70, 75}
\* sensitivity the consumer may configure (Partial<WakeWordConfig>)
Sensitivities == {DefaultSensitivity, 80}
\* what the consumer may pass to setSensitivity
SensitivityArguments == Sensitivities \cup {30}

ProcIds == 1..MaxProcessors
SvcIds == 1..MaxServices

VARIABLES
    config,              \* fullConfig: useLocalProcessing, hasUrl, sensitivity
    isActive,            \* useState(false)
    isDetected,          \* useState(false)
    confidence,          \* useState(0)
    status,              \* useState('Idle'), the last status reported
    detectionTimeout,    \* detectionTimeoutRef holds a timer that has not fired
    batteryPromises,     \* getBattery() promises not yet settled
    batteryMonitor,      \* batteryMonitorRef holds a running interval
    batteryLeaked,       \* a running interval no ref points to any more
    procs,               \* the WakeWordAudioProcessor objects
    audioProcessorRef,   \* audioProcessorRef.current (0 is null)
    svcs,                \* the WakeWordService objects
    wakeWordServiceRef,  \* wakeWordServiceRef.current (0 is null)
    wakeWordEnabled,     \* App: useState(false)
    windowCalls,         \* onWakeWordDetected calls since the detection
                         \* timeout was last armed from the idle state
    droppedMessages,     \* payloads ws.onmessage could not parse (saturating)
    processor,           \* a WakeWordAudioProcessor driven through its own
                         \* methods, with its circular buffer
    audioChunk,          \* what getAudioChunk returned last
    history,             \* what was done to that processor: the samples
                         \* written last, their number, the argument of the
                         \* last setSensitivity, the last classification
    transcript,          \* the transcript speech recognition reports, as
                         \* the sequence of its pieces
    matched,             \* what the text matchers return for it
    detector,            \* the WakeWordDetector (utils/wakeWord) and the
                         \* SpeechRecognition object it owns
    service,             \* a WakeWordService driven through its own
                         \* methods
    calls,               \* the connect() and disconnect() calls made on
                         \* it: their number, the promises still polling,
                         \* the kind of the last step, and the readyState
                         \* connect() last answered true on; cleanups is
                         \* the number of cleanup() calls made on processor
                         \* when its teardown is followed
    app,                 \* App (services/openai.ts): the wakeWordEnabled and
                         \* isActive its wake-word effect ran with last, and
                         \* whether the body of the effect is still to run
                         \* after its cleanup
    speech               \* the useSpeech hook: its listening state, its
                         \* language, the recognition recognitionRef holds,
                         \* recognitions stopped whose end event is still to
                         \* come, restart timers, and the dependencies its
                         \* language effect ran with last

vars == <<config, isActive, isDetected, confidence, status, detectionTimeout,
          batteryPromises, batteryMonitor, batteryLeaked, procs,
          audioProcessorRef, svcs, wakeWordServiceRef, wakeWordEnabled,
          windowCalls, droppedMessages, processor, audioChunk, history,
          transcript, matched, detector, service, calls, app, speech>>

hookVars == <<isActive, isDetected, confidence, detectionTimeout, windowCalls>>
batteryVars == <<batteryPromises, batteryMonitor, batteryLeaked>>
procVars == <<procs, audioProcessorRef>>
svcVars == <<svcs, wakeWordServiceRef>>
\* the objects that are driven on their own, outside the hook
processorVars == <<processor, audioChunk, history>>
matcherVars == <<transcript, matched>>
serviceVars == <<service, calls>>
standaloneVars == <<processorVars, matcherVars, detector, serviceVars, app,
                    speech>>

Min(a, b) == IF a < b THEN a ELSE b

\* ------------------------------------------------ WakeWordAudioProcessor
\* phase: "free" (no such object), "awaiting" (initialize() is awaiting
\* getUserMedia), "done" (initialize() has returned).  stopRequested records
\* that stopWakeWorker() ran while initialize() was pending.
FreeProc ==
    [phase |-> "free", mediaStream |-> FALSE, audioContext |-> FALSE,
     scriptProcessor |-> FALSE, isListening |-> FALSE,
     wakeWordThreshold |-> DefaultThreshold, stopRequested |-> FALSE]

NewProcessor == [FreeProc EXCEPT !.phase = "awaiting"]

HoldsCapture(p) == p.mediaStream \/ p.audioContext \/ p.scriptProcessor

\* an object nothing refers to and that can act no more is collected
Collect(ps, ref) ==
    [i \in ProcIds |->
        IF i # ref /\ ps[i].phase = "done" /\ ~HoldsCapture(ps[i])
        THEN FreeProc ELSE ps[i]]

FreeProcIds == {i \in ProcIds : procs[i].phase = "free"}

\* WakeWordAudioProcessor.startDetection
startDetection(p) == [p EXCEPT !.isListening = TRUE]

\* WakeWordAudioProcessor.stopDetection
stopDetection(p) == [p EXCEPT !.isListening = FALSE]

\* cleanup that does not stop and drop the media stream
cleanup_KeepsStream(p) ==
    [stopDetection(p) EXCEPT !.scriptProcessor = FALSE,
                             !.audioContext = FALSE]

\* WakeWordAudioProcessor.cleanup
cleanup(p) ==
    [stopDetection(p) EXCEPT !.scriptProcessor = FALSE,
                             !.audioContext = FALSE,
                             !.mediaStream = FALSE]

\* WakeWordAudioProcessor.initialize after getUserMedia has settled:
\* "granted" runs to return true, "denied" rejects before anything is held,
\* "setupThrows" is an exception from AudioContext / createScriptProcessor /
\* connect after the stream was stored.
InitializeOutcomes == {"granted", "denied", "setupThrows"}

initialize(p, outcome) ==
    CASE outcome = "granted" ->
            [p EXCEPT !.phase = "done", !.mediaStream = TRUE,
                      !.audioContext = TRUE, !.scriptProcessor = TRUE]
      [] outcome = "setupThrows" ->
            [p EXCEPT !.phase = "done", !.mediaStream = TRUE]
      [] OTHER -> [p EXCEPT !.phase = "done"]

\* WakeWordAudioProcessor.processWakeWord: the mock confidence is reported
\* when it exceeds the threshold
processWakeWord(p, mockConfidence) == mockConfidence > p.wakeWordThreshold

\* WakeWordAudioProcessor.setSensitivity with the assignment left out
setSensitivity_Ignored(p, sensitivity) == p

\* WakeWordAudioProcessor.setSensitivity
setSensitivity(p, sensitivity) == [p EXCEPT !.wakeWordThreshold = sensitivity]

\* the circular buffer of the constructor with stale content in it
circularBuffer_Dirty == [i \in 1..(sampleRate * 2) |-> 1]

\* the circular buffer of the constructor: new Float32Array(sampleRate * 2),
\* all zero.  Element k of the Float32Array is element k + 1 here.
circularBuffer_New == [i \in 1..(sampleRate * 2) |-> 0]

\* a processor as its constructor leaves it, initialize() called
NewProcessorWithBuffer ==
    [phase |-> "awaiting", mediaStream |-> FALSE, audioContext |-> FALSE,
     scriptProcessor |-> FALSE, isListening |-> FALSE,
     wakeWordThreshold |-> DefaultThreshold, stopRequested |-> FALSE,
     circularBuffer |-> circularBuffer_New, bufferIndex |-> 0]

\* the frames onaudioprocess can deliver: 0 is silence, 1 a loud sample
Samples == {0, 1}
Frames == UNION {[1..n -> Samples] : n \in 1..bufferSize}

\* processAudioBuffer, its loop that adds the frame to the circular buffer
RECURSIVE processAudioBufferWrite(_, _)
processAudioBufferWrite(p, inputBuffer) ==
    IF inputBuffer = <<>>
    THEN p
    ELSE processAudioBufferWrite(
             [p EXCEPT !.circularBuffer[p.bufferIndex + 1] = Head(inputBuffer),
                       !.bufferIndex = (p.bufferIndex + 1) % Len(p.circularBuffer)],
             Tail(inputBuffer))

RECURSIVE SumOfSquares(_)
SumOfSquares(audioData) ==
    IF audioData = <<>> THEN 0
    ELSE Head(audioData) * Head(audioData) + SumOfSquares(Tail(audioData))

\* hasVoiceActivity: the mean of the squares exceeds 0.001
hasVoiceActivity(audioData) == SumOfSquares(audioData) * 1000 > Len(audioData)

\* getAudioChunk reading forward from bufferIndex (the oldest samples)
getAudioChunk_Forward(p) ==
    [i \in 1..sampleRate |->
        p.circularBuffer[((p.bufferIndex + (i - 1)) % Len(p.circularBuffer)) + 1]]

\* getAudioChunk: chunkSize = sampleRate samples that end at bufferIndex
getAudioChunk(p) ==
    [i \in 1..sampleRate |->
        p.circularBuffer[
            ((p.bufferIndex - sampleRate + (i - 1) + Len(p.circularBuffer))
                 % Len(p.circularBuffer)) + 1]]

\* the last n elements of a sequence (all of it when it is shorter)
LastN(q, n) == IF Len(q) <= n THEN q ELSE SubSeq(q, Len(q) - n + 1, Len(q))

\* nothing has been done to the processor yet
NoHistory ==
    [written |-> <<>>, total |-> 0, lastSet |-> 0, classified |-> FALSE,
     mockConfidence |-> 0, reported |-> FALSE]

\* ------------------------------------------------------ WakeWordService
\* ws is the readyState of the socket the ws field refers to ("null" when it
\* refers to none).  A socket the field no longer refers to keeps its
\* handlers: orphans counts those sockets by state (closingC and closingO
\* are sockets close() was called on while CONNECTING and while OPEN, whose
\* close event is still to be delivered).  timers counts the reconnect
\* timers set by handleReconnection that have not fired, connectPending says
\* that startWakeWorker is awaiting the promise of connect().
\* disconnectCalled, closes and stopRequested are history: disconnect() has
\* been called, close events since the last open or disconnect(), and
\* stopWakeWorker() ran while connect() was pending.
\* delay is the timeout, in ms, of the reconnect timer set last, 0 once no
\* reconnect timer is pending.
NoOrphans == [connecting |-> 0, open |-> 0, closingC |-> 0, closingO |-> 0]

FreeSvc ==
    [phase |-> "free", ws |-> "null", reconnectAttempts |-> 0,
     isConnecting |-> FALSE, orphans |-> NoOrphans, timers |-> 0,
     connectPending |-> FALSE, disconnectCalled |-> FALSE, closes |-> 0,
     stopRequested |-> FALSE, delay |-> 0]

NewService == [FreeSvc EXCEPT !.phase = "live"]

LiveSockets(s) ==
    (IF s.ws \in {"CONNECTING", "OPEN"} THEN 1 ELSE 0)
        + s.orphans.connecting + s.orphans.open

PendingCloses(s) == s.orphans.closingC + s.orphans.closingO

CanAct(s) ==
    \/ LiveSockets(s) > 0
    \/ PendingCloses(s) > 0
    \/ s.timers > 0
    \/ s.connectPending

CollectSvcs(ss, ref) ==
    [i \in SvcIds |->
        IF i # ref /\ ss[i].phase = "live" /\ ~CanAct(ss[i])
        THEN FreeSvc ELSE ss[i]]

FreeSvcIds == {i \in SvcIds : svcs[i].phase = "free"}

\* connect() without the readyState half of its guard
connect_NoOpenGuard(s) ==
    IF s.isConnecting
    THEN s
    ELSE [s EXCEPT !.isConnecting = TRUE,
                   !.ws = "CONNECTING",
                   !.orphans.open = @ + (IF s.ws = "OPEN" THEN 1 ELSE 0),
                   !.orphans.connecting =
                       @ + (IF s.ws = "CONNECTING" THEN 1 ELSE 0)]

\* WakeWordService.connect, up to the promise it returns
connect(s) ==
    IF s.isConnecting \/ s.ws = "OPEN"
    THEN s
    ELSE [s EXCEPT !.isConnecting = TRUE,
                   !.ws = "CONNECTING",
                   !.orphans.connecting =
                       @ + (IF s.ws = "CONNECTING" THEN 1 ELSE 0)]

\* ws.onopen without the reset of reconnectAttempts
onopen_NoReset(s) == [s EXCEPT !.isConnecting = FALSE, !.closes = 0]

\* ws.onopen
onopen(s) ==
    [s EXCEPT !.isConnecting = FALSE, !.reconnectAttempts = 0, !.closes = 0]

\* ws.onerror
onerror(s) == [s EXCEPT !.isConnecting = FALSE]

\* handleReconnection with the cap compared by > (one attempt too many)
handleReconnection_OffByOne(s) ==
    IF s.reconnectAttempts > maxReconnectAttempts
    THEN s
    ELSE [s EXCEPT !.reconnectAttempts = @ + 1, !.timers = @ + 1,
                   !.delay = reconnectDelay * (s.reconnectAttempts + 1)]

\* handleReconnection that gives up at once: no reconnect is scheduled
handleReconnection_Never(s) == s

\* handleReconnection with the same delay before every attempt
handleReconnection_FixedDelay(s) ==
    IF s.reconnectAttempts >= maxReconnectAttempts
    THEN s
    ELSE [s EXCEPT !.reconnectAttempts = @ + 1, !.timers = @ + 1,
                   !.delay = reconnectDelay]

\* WakeWordService.handleReconnection; delay is the timeout, in ms, of the
\* reconnect timer it sets: reconnectDelay * reconnectAttempts, taken after
\* the increment
handleReconnection(s) ==
    IF s.reconnectAttempts >= maxReconnectAttempts
    THEN s
    ELSE [s EXCEPT !.reconnectAttempts = @ + 1, !.timers = @ + 1,
                   !.delay = reconnectDelay * (s.reconnectAttempts + 1)]

\* the status handleReconnection reports last
handleReconnectionStatus(s) ==
    IF s.reconnectAttempts >= maxReconnectAttempts
    THEN "Max reconnection attempts reached"
    ELSE "Reconnecting..."

\* ws.onclose
onclose(s) ==
    handleReconnection(
        [s EXCEPT !.isConnecting = FALSE,
                  !.closes = Min(@ + 1, maxReconnectAttempts + 1)])

\* WakeWordService.disconnect
disconnect(s) ==
    [s EXCEPT !.ws = "null",
              !.orphans.closingC = @ + (IF s.ws = "CONNECTING" THEN 1 ELSE 0),
              !.orphans.closingO = @ + (IF s.ws = "OPEN" THEN 1 ELSE 0),
              !.reconnectAttempts = 0,
              !.isConnecting = FALSE,
              !.disconnectCalled = TRUE,
              !.closes = 0]

\* no connect() or disconnect() call was made yet
NoCalls ==
    [connects |-> 0, disconnects |-> 0, pending |-> 0, last |-> "none",
     trueOn |-> "none", cleanups |-> 0]

\* ------------------------------------------------- text wake-word matchers
\* A string is the sequence of its characters.  A transcript is made of
\* pieces; PieceChars gives the characters of each.
PieceChars ==
    [orion |-> <<"o", "r", "i", "o", "n">>,
     ORION |-> <<"O", "R", "I", "O", "N">>,
     Hey |-> <<"H", "e", "y">>,
     meeting |-> <<"m", "e", "e", "t", "i", "n", "g">>,
     blank |-> <<" ">>,
     comma |-> <<",">>,
     underscore |-> <<"_">>]

Pieces == DOMAIN PieceChars

RECURSIVE Chars(_)
Chars(pieces) ==
    IF pieces = <<>> THEN <<>>
    ELSE PieceChars[Head(pieces)] \o Chars(Tail(pieces))

UpperCase == {"H", "I", "N", "O", "R"}
LowerCase == {"e", "g", "h", "i", "m", "n", "o", "r", "t", "y",
              "l", "p", "k", "a", "s"}

\* \w and \s of a JavaScript regular expression
IsWordChar(c) == c \in UpperCase \cup LowerCase \cup {"_"}
IsWhitespace(c) == c = " "

toLowerCaseChar(c) ==
    CASE c = "H" -> "h" [] c = "I" -> "i" [] c = "N" -> "n"
      [] c = "O" -> "o" [] c = "R" -> "r" [] OTHER -> c

\* String.prototype.toLowerCase
toLowerCase(str) == [i \in 1..Len(str) |-> toLowerCaseChar(str[i])]

RECURSIVE trimStart(_)
trimStart(str) ==
    IF str # <<>> /\ IsWhitespace(Head(str)) THEN trimStart(Tail(str)) ELSE str

RECURSIVE trimEnd(_)
trimEnd(str) ==
    IF str # <<>> /\ IsWhitespace(str[Len(str)])
    THEN trimEnd(SubSeq(str, 1, Len(str) - 1))
    ELSE str

\* String.prototype.trim
trim(str) == trimEnd(trimStart(str))

\* str.replace(/[^\w\s]/g, '')
StripPunctuation(str) ==
    SelectSeq(str, LAMBDA c : IsWordChar(c) \/ IsWhitespace(c))

\* str.replace(/\s+/g, ' ')
RECURSIVE CollapseWhitespace(_)
CollapseWhitespace(str) ==
    IF str = <<>> THEN <<>>
    ELSE IF IsWhitespace(Head(str))
         THEN <<" ">> \o CollapseWhitespace(trimStart(str))
         ELSE <<Head(str)>> \o CollapseWhitespace(Tail(str))

\* String.prototype.startsWith, endsWith, includes
startsWith(str, word) ==
    Len(word) <= Len(str) /\ SubSeq(str, 1, Len(word)) = word

endsWith(str, word) ==
    /\ Len(word) <= Len(str)
    /\ SubSeq(str, Len(str) - Len(word) + 1, Len(str)) = word

includes(str, word) ==
    \E k \in 1..(Len(str) - Len(word) + 1) :
        SubSeq(str, k, k + Len(word) - 1) = word

\* \b at the place before character pos of str (pos = Len(str) + 1 is the
\* end): exactly one of its two sides is a word character
WordBoundary(str, pos) ==
    LET before == pos > 1 /\ IsWordChar(str[pos - 1])
        after == pos <= Len(str) /\ IsWordChar(str[pos])
    IN before # after

\* new RegExp(`\\b${word}\\b`, 'i').test(str)
RegExpWordTest(word, str) ==
    \E k \in 1..(Len(str) - Len(word) + 1) :
        /\ toLowerCase(SubSeq(str, k, k + Len(word) - 1)) = toLowerCase(word)
        /\ WordBoundary(str, k)
        /\ WordBoundary(str, k + Len(word))

\* the wake words of WakeWordDetector.detectWakeWord
DetectorWakeWords ==
    {<<"o", "r", "i", "o", "n">>,
     <<"h", "e", "y", " ", "o", "r", "i", "o", "n">>,
     <<"h", "i", " ", "o", "r", "i", "o", "n">>,
     <<"h", "e", "l", "l", "o", " ", "o", "r", "i", "o", "n">>,
     <<"o", "k", " ", "o", "r", "i", "o", "n">>,
     <<"o", "r", "i", "o", "n", " ", "h", "e", "l", "p">>,
     <<"o", "r", "i", "o", "n", " ", "a", "s", "s", "i", "s", "t", "a", "n", "t">>}

\* the normalisation of WakeWordDetector.detectWakeWord
NormalizeTranscript(str) == trim(CollapseWhitespace(StripPunctuation(str)))

\* WakeWordDetector.detectWakeWord without its word-boundary test
detectWakeWord_NoContainment(str) ==
    LET normalized == NormalizeTranscript(str)
    IN \E word \in DetectorWakeWords :
           \/ normalized = word
           \/ startsWith(normalized, word \o <<" ">>)

\* WakeWordDetector.detectWakeWord
detectWakeWord(str) ==
    LET normalized == NormalizeTranscript(str)
    IN \E word \in DetectorWakeWords :
           \/ normalized = word
           \/ startsWith(normalized, word \o <<" ">>)
           \/ RegExpWordTest(word, normalized)

\* WakeWordDetector, recognition.onresult: what it passes to detectWakeWord
onresultTranscript(str) == trim(toLowerCase(str))

\* the wake words of the detectWakeWord of useSpeech
SpeechWakeWords ==
    {<<"o", "r", "i", "o", "n">>,
     <<"h", "e", "y", " ", "o", "r", "i", "o", "n">>,
     <<"h", "i", " ", "o", "r", "i", "o", "n">>,
     <<"h", "e", "l", "l", "o", " ", "o", "r", "i", "o", "n">>}

\* useSpeech, detectWakeWord
speechDetectWakeWord(text) ==
    LET normalizedText == trim(toLowerCase(text))
    IN \E word \in SpeechWakeWords :
           \/ includes(normalizedText, word)
           \/ startsWith(normalizedText, word)
           \/ endsWith(normalizedText, word)

\* what the two matchers return for a transcript
Matches(pieces) ==
    [detector |-> detectWakeWord(onresultTranscript(Chars(pieces))),
     speech |-> speechDetectWakeWord(Chars(pieces))]

NoMatch == [detector |-> FALSE, speech |-> FALSE]

\* ------------------------------------------------------ WakeWordDetector
\* recognition is the state of the SpeechRecognition object: "idle",
\* "started" (start() was called), "stopping" (stop() was called and the end
\* event is still to come).  lang is recognition.lang.  restartTimers and
\* commandTimers count the pending timers of onend and of onresult.
Languages == {"en", "hi", "ta"}

\* WakeWordDetector.getLanguageCode
getLanguageCode(language) ==
    CASE language = "en" -> "en-US"
      [] language = "hi" -> "hi-IN"
      [] OTHER -> "ta-IN"

\* a WakeWordDetector after its constructor, in a browser that has speech
\* recognition
NewDetector ==
    [isListening |-> FALSE, language |-> "en", lang |-> "en-US",
     recognition |-> "idle", restartTimers |-> 0, commandTimers |-> 0,
     status |-> "none"]

\* WakeWordDetector.startListening: recognition.start() throws when the
\* recognition has been started and has not ended
detectorStartListening(d) ==
    IF d.isListening
    THEN d
    ELSE IF d.recognition = "idle"
         THEN [d EXCEPT !.isListening = TRUE,
                        !.recognition = "started",
                        !.status = "Wake word detection active"]
         ELSE [d EXCEPT !.isListening = FALSE,
                        !.status = "Failed to start wake word detection"]

\* WakeWordDetector.stopListening
detectorStopListening(d) ==
    IF ~d.isListening
    THEN d
    ELSE [d EXCEPT !.isListening = FALSE,
                   !.recognition = IF @ = "started" THEN "stopping" ELSE @,
                   !.status = "Wake word detection stopped"]

\* WakeWordDetector.setLanguage
detectorSetLanguage(d, language) ==
    [d EXCEPT !.language = language,
              !.lang = IF ~d.isListening
                       THEN getLanguageCode(language) ELSE @]

\* WakeWordDetector.switchToCommandMode
switchToCommandMode(d) ==
    [detectorStopListening(d) EXCEPT !.lang = getLanguageCode(d.language),
                                     !.status = "Ready for your command..."]

\* App after its first render: the effect has run with wakeWordEnabled
\* false and the first startWakeWorker
FirstRender == [enabled |-> FALSE, isActive |-> FALSE, phase |-> "idle"]

\* useSpeech after its first render: recognition is the state of the
\* recognition recognitionRef holds ("null" when it holds none), lang its
\* recognition.lang
NewSpeech ==
    [listening |-> FALSE, language |-> "en", recognition |-> "null",
     lang |-> "en-US", detached |-> 0, restartTimers |-> 0,
     deps |-> [language |-> "en", listening |-> FALSE]]

\* ------------------------------------------------------------ the hook
TypeOK ==
    /\ isActive \in BOOLEAN
    /\ isDetected \in BOOLEAN
    /\ confidence \in Confidences
    /\ detectionTimeout \in BOOLEAN
    /\ audioProcessorRef \in 0..MaxProcessors
    /\ windowCalls \in 0..2

Init ==
    /\ config \in [useLocalProcessing : BOOLEAN, hasUrl : BOOLEAN,
                   sensitivity : Sensitivities]
    /\ isActive = FALSE
    /\ isDetected = FALSE
    /\ confidence = 0
    /\ status = "Idle"
    /\ detectionTimeout = FALSE
    /\ batteryPromises = 0
    /\ batteryMonitor = FALSE
    /\ batteryLeaked = FALSE
    /\ procs = [i \in ProcIds |-> FreeProc]
    /\ audioProcessorRef = 0
    /\ svcs = [i \in SvcIds |-> FreeSvc]
    /\ wakeWordServiceRef = 0
    /\ wakeWordEnabled = FALSE
    /\ windowCalls = 0
    /\ droppedMessages = 0
    /\ processor = NewProcessorWithBuffer
    /\ audioChunk = <<>>
    /\ history = NoHistory
    /\ transcript = <<>>
    /\ matched = NoMatch
    /\ detector = NewDetector
    /\ service = NewService
    /\ calls = NoCalls
    /\ app = FirstRender
    /\ speech = NewSpeech

\* handleWakeWordDetection(c): the state it sets, the callback it invokes and
\* the timer it re-arms
handleWakeWordDetection(c) ==
    /\ isDetected' = TRUE
    /\ confidence' = c
    /\ windowCalls' = IF detectionTimeout THEN Min(windowCalls + 1, 2) ELSE 1
    /\ status' = "Wake word detected"
    /\ detectionTimeout' = TRUE

\* the timer callback without setIsDetected(false)
DetectionTimeoutFires_KeepsFlag ==
    /\ detectionTimeout
    /\ detectionTimeout' = FALSE
    /\ confidence' = 0
    /\ windowCalls' = 0
    /\ UNCHANGED <<config, standaloneVars, droppedMessages, isActive,
                   isDetected, status, batteryVars, procVars, svcVars,
                   wakeWordEnabled>>

\* the 3000 ms timer of handleWakeWordDetection fires
DetectionTimeoutFires ==
    /\ detectionTimeout
    /\ detectionTimeout' = FALSE
    /\ isDetected' = FALSE
    /\ confidence' = 0
    /\ windowCalls' = 0
    /\ UNCHANGED <<config, standaloneVars, droppedMessages, isActive, status, batteryVars, procVars, svcVars,
                   wakeWordEnabled>>

\* monitorBatteryImpact: one more getBattery() promise is pending
monitorBatteryImpact(n) == n + 1

\* the getBattery() promise of monitorBatteryImpact settles: its then-branch
\* stores a new interval in batteryMonitorRef (the interval the ref held
\* keeps running), its catch-branch sets nothing that is modelled
BatterySettles(outcome) ==
    /\ batteryPromises > 0
    /\ batteryPromises' = batteryPromises - 1
    /\ IF outcome = "resolved"
       THEN /\ batteryMonitor' = TRUE
            /\ batteryLeaked' = (batteryLeaked \/ batteryMonitor)
       ELSE UNCHANGED <<batteryMonitor, batteryLeaked>>
    /\ UNCHANGED <<config, standaloneVars, droppedMessages, hookVars, status, procVars, svcVars, wakeWordEnabled>>

\* startWakeWorker calls whose await has not completed
PendingStarts ==
    Cardinality({i \in ProcIds : procs[i].phase = "awaiting"})
        + Cardinality({i \in SvcIds : svcs[i].connectPending})

\* initializeAudioProcessor up to its await: a new processor replaces the
\* one the ref held
initializeAudioProcessor ==
    /\ FreeProcIds # {}
    /\ LET p == CHOOSE i \in FreeProcIds : \A j \in FreeProcIds : i <= j
       IN /\ procs' = Collect([procs EXCEPT ![p] = NewProcessor], p)
          /\ audioProcessorRef' = p
    /\ UNCHANGED svcVars

\* initializeWebSocketService and the connect() of the remote branch, up to
\* the await
initializeWebSocketService ==
    IF ~config.hasUrl
    THEN UNCHANGED <<procVars, svcVars>>
    ELSE /\ FreeSvcIds # {}
         /\ LET s == CHOOSE i \in FreeSvcIds : \A j \in FreeSvcIds : i <= j
                started == [connect(NewService) EXCEPT !.connectPending = TRUE]
            IN /\ svcs' = CollectSvcs([svcs EXCEPT ![s] = started], s)
               /\ wakeWordServiceRef' = s
         /\ UNCHANGED procVars

\* startWakeWorker up to its first await, called through a reference whose
\* closure holds closureIsActive for isActive
StartBody(closureIsActive) ==
    IF closureIsActive
    THEN UNCHANGED <<procVars, svcVars>>
    ELSE /\ PendingStarts + batteryPromises < MaxBatteryPromises
         /\ IF config.useLocalProcessing
            THEN initializeAudioProcessor
            ELSE initializeWebSocketService

StartStatus(closureIsActive) ==
    CASE closureIsActive -> status
      [] ~config.useLocalProcessing /\ ~config.hasUrl ->
            "Failed to start wake word detection"
      [] OTHER -> "Starting wake word detection..."

startWakeWorker(closureIsActive) ==
    /\ StartBody(closureIsActive)
    /\ status' = StartStatus(closureIsActive)
    /\ UNCHANGED <<config, standaloneVars, droppedMessages, hookVars, batteryVars, wakeWordEnabled>>

\* App: the keydown listener registered by the first render (its effect has
\* the dependencies [updateStatus], which never change) on Ctrl+O: it calls
\* the first render's handleWakeWordToggle, whose closure holds
\* wakeWordEnabled = false and the first render's startWakeWorker, whose
\* closure holds isActive = false
handleKeyDownCtrlO ==
    /\ StartBody(FALSE)
    /\ wakeWordEnabled' = TRUE
    /\ status' = "Wake word detection toggled"
    /\ UNCHANGED <<config, standaloneVars, droppedMessages, hookVars, batteryVars>>

\* getUserMedia settles for processor p: initialize() returns, and the
\* continuations of initializeAudioProcessor and startWakeWorker run
MediaSettles(p, outcome) ==
    /\ procs[p].phase = "awaiting"
    /\ LET success == outcome = "granted"
           ps1 == [procs EXCEPT ![p] = initialize(@, outcome)]
           ps2 == IF success /\ audioProcessorRef # 0
                  THEN [ps1 EXCEPT ![audioProcessorRef] = startDetection(@)]
                  ELSE ps1
       IN /\ procs' = Collect(ps2, audioProcessorRef)
          /\ isActive' = (isActive \/ success)
          /\ batteryPromises' = IF success
                                THEN monitorBatteryImpact(batteryPromises)
                                ELSE batteryPromises
          /\ status' = IF success
                       THEN "Wake word detection started"
                       ELSE "Failed to start wake word detection"
    /\ UNCHANGED <<config, standaloneVars, droppedMessages, isDetected, confidence, detectionTimeout,
                   windowCalls, batteryMonitor, batteryLeaked,
                   audioProcessorRef, svcVars, wakeWordEnabled>>

\* onaudioprocess of processor p delivers a voiced frame for which the mock
\* classifier computes mockConfidence
AudioFrame(p, mockConfidence) ==
    /\ procs[p].scriptProcessor
    /\ procs[p].isListening
    /\ IF processWakeWord(procs[p], mockConfidence)
       THEN handleWakeWordDetection(mockConfidence)
       ELSE UNCHANGED <<isDetected, confidence, windowCalls, status,
                        detectionTimeout>>
    /\ UNCHANGED <<config, standaloneVars, droppedMessages, isActive, batteryVars, procVars, svcVars,
                   wakeWordEnabled>>

\* the checkConnection poll of the connect() that startWakeWorker awaits sees
\* the socket OPEN or CLOSED, and the continuation of startWakeWorker runs
\* (sendMessage through a null wakeWordServiceRef throws into its catch)
checkConnection(i) ==
    /\ svcs[i].connectPending
    /\ svcs[i].ws \in {"OPEN", "CLOSED"}
    /\ LET resolved == svcs[i].ws = "OPEN"
           success == resolved /\ wakeWordServiceRef # 0
       IN /\ isActive' = (isActive \/ success)
          /\ batteryPromises' = IF success
                                THEN monitorBatteryImpact(batteryPromises)
                                ELSE batteryPromises
          /\ status' = CASE success -> "Wake word detection started"
                         [] resolved -> "Start failed"
                         [] OTHER -> "Failed to start wake word detection"
    /\ svcs' = CollectSvcs([svcs EXCEPT ![i].connectPending = FALSE],
                           wakeWordServiceRef)
    /\ UNCHANGED <<config, standaloneVars, droppedMessages, isDetected, confidence, detectionTimeout,
                   windowCalls, batteryMonitor, batteryLeaked, procVars,
                   wakeWordServiceRef, wakeWordEnabled>>

\* the socket the ws field of service i refers to opens
SocketOpens(i) ==
    /\ svcs[i].ws = "CONNECTING"
    /\ svcs' = [svcs EXCEPT ![i] = onopen([@ EXCEPT !.ws = "OPEN"])]
    /\ status' = "Connected to wake word service"
    /\ UNCHANGED <<config, standaloneVars, droppedMessages, hookVars, batteryVars, procVars,
                   wakeWordServiceRef, wakeWordEnabled>>

\* the socket the ws field of service i refers to fails or is closed by the
\* peer: a failed connection attempt fires error, then close
SocketCloses(i) ==
    /\ svcs[i].ws \in {"CONNECTING", "OPEN"}
    /\ LET s0 == [svcs[i] EXCEPT !.ws = "CLOSED"]
           s1 == IF svcs[i].ws = "CONNECTING" THEN onerror(s0) ELSE s0
       IN /\ svcs' = CollectSvcs([svcs EXCEPT ![i] = onclose(s1)],
                                 wakeWordServiceRef)
          /\ status' = handleReconnectionStatus(s1)
    /\ UNCHANGED <<config, standaloneVars, droppedMessages, hookVars, batteryVars, procVars,
                   wakeWordServiceRef, wakeWordEnabled>>

\* an event of a socket of service i that the ws field no longer refers to
OrphanKinds == {"closes", "opens"}

OrphanEvent(i, kind) ==
    /\ LET s == svcs[i]
           o == s.orphans
       IN CASE kind = "closes" /\ o.closingC > 0 ->
                 /\ svcs' = CollectSvcs([svcs EXCEPT ![i] =
                        onclose(onerror([s EXCEPT !.orphans.closingC = @ - 1]))],
                        wakeWordServiceRef)
                 /\ status' = handleReconnectionStatus(s)
            [] kind = "closes" /\ o.closingC = 0 /\ o.closingO > 0 ->
                 /\ svcs' = CollectSvcs([svcs EXCEPT ![i] =
                        onclose([s EXCEPT !.orphans.closingO = @ - 1])],
                        wakeWordServiceRef)
                 /\ status' = handleReconnectionStatus(s)
            [] kind = "closes" /\ PendingCloses(s) = 0 /\ o.connecting > 0 ->
                 /\ svcs' = CollectSvcs([svcs EXCEPT ![i] =
                        onclose(onerror([s EXCEPT !.orphans.connecting = @ - 1]))],
                        wakeWordServiceRef)
                 /\ status' = handleReconnectionStatus(s)
            [] kind = "closes" /\ PendingCloses(s) = 0 /\ o.connecting = 0
                    /\ o.open > 0 ->
                 /\ svcs' = CollectSvcs([svcs EXCEPT ![i] =
                        onclose([s EXCEPT !.orphans.open = @ - 1])],
                        wakeWordServiceRef)
                 /\ status' = handleReconnectionStatus(s)
            [] kind = "opens" /\ o.connecting > 0 ->
                 /\ svcs' = [svcs EXCEPT ![i] =
                        onopen([s EXCEPT !.orphans.connecting = @ - 1,
                                         !.orphans.open = @ + 1])]
                 /\ status' = "Connected to wake word service"
            [] OTHER -> FALSE
    /\ UNCHANGED <<config, standaloneVars, droppedMessages, hookVars, batteryVars, procVars,
                   wakeWordServiceRef, wakeWordEnabled>>

\* a reconnect timer of service i fires: it calls connect()
ReconnectTimerFires(i) ==
    /\ svcs[i].timers > 0
    /\ svcs' = [svcs EXCEPT ![i] =
                    connect([@ EXCEPT !.timers = @ - 1,
                                      !.delay = IF svcs[i].timers = 1
                                                THEN 0 ELSE @])]
    /\ UNCHANGED <<config, standaloneVars, droppedMessages, hookVars, status, batteryVars, procVars,
                   wakeWordServiceRef, wakeWordEnabled>>

\* what the peer can send on an open socket
Messages ==
    [type : {"DETECTION"}, detected : BOOLEAN, confidence : Confidences]
        \cup [type : {"STATUS", "ERROR", "MALFORMED"}]

\* ws.onmessage of an open socket of service i, and the onMessage callback
\* the hook gave the service
ServerMessage(i, m) ==
    /\ svcs[i].ws = "OPEN" \/ svcs[i].orphans.open > 0
    /\ CASE m.type = "DETECTION" ->
              IF m.detected /\ m.confidence # 0
              THEN handleWakeWordDetection(m.confidence)
              ELSE UNCHANGED <<isDetected, confidence, windowCalls, status,
                               detectionTimeout>>
         [] m.type = "STATUS" ->
              /\ status' = "Status update"
              /\ UNCHANGED <<isDetected, confidence, windowCalls,
                             detectionTimeout>>
         [] m.type = "ERROR" ->
              /\ status' = "Error"
              /\ UNCHANGED <<isDetected, confidence, windowCalls,
                             detectionTimeout>>
         [] OTHER ->
              UNCHANGED <<isDetected, confidence, windowCalls, status,
                          detectionTimeout>>
    /\ droppedMessages' = IF m.type = "MALFORMED"
                          THEN Min(droppedMessages + 1, MaxDropped)
                          ELSE droppedMessages
    /\ UNCHANGED <<config, standaloneVars, isActive, batteryVars, procVars,
                   svcVars, wakeWordEnabled>>

\* stopWakeWorker, the part of it in the source: the state it resets and the
\* timers it clears
StopHead ==
    /\ isActive' = FALSE
    /\ isDetected' = FALSE
    /\ confidence' = 0
    /\ detectionTimeout' = FALSE
    /\ windowCalls' = 0
    /\ batteryMonitor' = FALSE
    /\ UNCHANGED <<batteryPromises, batteryLeaked>>

\* stopWakeWorker, the rest of it: capture and transport are torn down
\* through the refs, which are then cleared
StopTeardown ==
    /\ audioProcessorRef' = 0
    /\ procs' = Collect(
           [i \in ProcIds |->
               LET q == IF i = audioProcessorRef THEN cleanup(procs[i])
                        ELSE procs[i]
               IN IF q.phase = "awaiting"
                  THEN [q EXCEPT !.stopRequested = TRUE] ELSE q], 0)
    /\ wakeWordServiceRef' = 0
    /\ svcs' = CollectSvcs(
           [i \in SvcIds |->
               LET q == IF i = wakeWordServiceRef THEN disconnect(svcs[i])
                        ELSE svcs[i]
               IN IF q.connectPending
                  THEN [q EXCEPT !.stopRequested = TRUE] ELSE q], 0)
    /\ status' = "Wake word detection stopped"

stopWakeWorker ==
    /\ StopHead
    /\ StopTeardown
    /\ UNCHANGED <<config, standaloneVars, droppedMessages, wakeWordEnabled>>

Next ==
    \/ startWakeWorker(isActive)
    \/ handleKeyDownCtrlO
    \/ stopWakeWorker
    \/ \E p \in ProcIds, o \in InitializeOutcomes : MediaSettles(p, o)
    \/ \E p \in ProcIds, c \in Confidences : AudioFrame(p, c)
    \/ DetectionTimeoutFires
    \/ \E o \in {"resolved", "rejected"} : BatterySettles(o)
    \/ \E i \in SvcIds : checkConnection(i)
    \/ \E i \in SvcIds : SocketOpens(i)
    \/ \E i \in SvcIds : svcs[i].closes < MaxPeerCloses /\ SocketCloses(i)
    \/ \E i \in SvcIds, k \in OrphanKinds : OrphanEvent(i, k)
    \/ \E i \in SvcIds : ReconnectTimerFires(i)
    \/ \E i \in SvcIds, m \in Messages : ServerMessage(i, m)

\* the whole engine: every configuration, overlapping starts, and at most
\* MaxPeerCloses failures in a row on a service
Spec == Init /\ [][Next]_vars

\* the transport followed to the end of its reconnect budget: the remote
\* configuration, one WakeWordService at a time, any number of failures
TransportInit ==
    /\ Init
    /\ ~config.useLocalProcessing
    /\ config.hasUrl
    /\ config.sensitivity = DefaultSensitivity

TransportNext ==
    \/ (\A i \in SvcIds : svcs[i].phase = "free") /\ startWakeWorker(isActive)
    \/ stopWakeWorker
    \/ DetectionTimeoutFires
    \/ \E o \in {"resolved", "rejected"} : BatterySettles(o)
    \/ \E i \in SvcIds : checkConnection(i)
    \/ \E i \in SvcIds : SocketOpens(i)
    \/ \E i \in SvcIds : SocketCloses(i)
    \/ \E i \in SvcIds, k \in OrphanKinds : OrphanEvent(i, k)
    \/ \E i \in SvcIds : ReconnectTimerFires(i)
    \/ \E i \in SvcIds, m \in Messages : ServerMessage(i, m)

SpecTransport == TransportInit /\ [][TransportNext]_vars

\* the transport with its timers and events taken to be delivered.  A
\* checkConnection poll is due every 100 ms and a reconnect timer runs for
\* 1000 ms or more from the close that set it, so the timer does not fire
\* while a poll that would resolve is due.
PollDue(i) == svcs[i].connectPending /\ svcs[i].ws \in {"OPEN", "CLOSED"}

TimedReconnectTimerFires(i) == ~PollDue(i) /\ ReconnectTimerFires(i)

\* a socket that is CONNECTING opens or fails
SocketSettles(i) ==
    /\ svcs[i].ws = "CONNECTING"
    /\ SocketOpens(i) \/ SocketCloses(i)

TimedTransportNext ==
    \/ (\A i \in SvcIds : svcs[i].phase = "free") /\ startWakeWorker(isActive)
    \/ stopWakeWorker
    \/ DetectionTimeoutFires
    \/ \E o \in {"resolved", "rejected"} : BatterySettles(o)
    \/ \E i \in SvcIds : checkConnection(i)
    \/ \E i \in SvcIds : SocketOpens(i)
    \/ \E i \in SvcIds : SocketCloses(i)
    \/ \E i \in SvcIds, k \in OrphanKinds : OrphanEvent(i, k)
    \/ \E i \in SvcIds : TimedReconnectTimerFires(i)
    \/ \E i \in SvcIds, m \in Messages : ServerMessage(i, m)

\* timers fire, and a socket that was created opens or closes
TransportFairness ==
    /\ WF_vars(DetectionTimeoutFires)
    /\ \A i \in SvcIds :
          /\ WF_vars(checkConnection(i))
          /\ WF_vars(SocketSettles(i))
          /\ WF_vars(OrphanEvent(i, "closes"))
          /\ WF_vars(TimedReconnectTimerFires(i))

SpecTransportFair ==
    TransportInit /\ [][TimedTransportNext]_vars /\ TransportFairness

\* ------------------------------------- WakeWordAudioProcessor on its own
\* the variables of the hook, which takes no step here
engineVars == <<config, isActive, isDetected, confidence, status,
                detectionTimeout, batteryPromises, batteryMonitor,
                batteryLeaked, procs, audioProcessorRef, svcs,
                wakeWordServiceRef, wakeWordEnabled, windowCalls,
                droppedMessages>>

\* what the steps of the processor on its own leave alone
notProcessorVars == <<engineVars, matcherVars, detector, serviceVars, app,
                      speech>>

\* getUserMedia settles and initialize() returns
ProcessorMediaSettles(outcome) ==
    /\ processor.phase = "awaiting"
    /\ processor' = initialize(processor, outcome)
    /\ UNCHANGED <<notProcessorVars, audioChunk, history>>

ProcessorStartDetection ==
    /\ processor' = startDetection(processor)
    /\ UNCHANGED <<notProcessorVars, audioChunk, history>>

ProcessorStopDetection ==
    /\ processor' = stopDetection(processor)
    /\ UNCHANGED <<notProcessorVars, audioChunk, history>>

ProcessorSetSensitivity(sensitivity) ==
    /\ processor' = setSensitivity(processor, sensitivity)
    /\ history' = [history EXCEPT !.lastSet = sensitivity]
    /\ UNCHANGED <<notProcessorVars, audioChunk>>

ProcessorCleanup ==
    /\ processor.phase = "done"
    /\ processor' = cleanup(processor)
    /\ UNCHANGED <<notProcessorVars, audioChunk, history>>

\* a new WakeWordAudioProcessor takes the place of one that was released
ProcessorConstruct ==
    /\ processor.phase = "done"
    /\ ~HoldsCapture(processor)
    /\ processor' = NewProcessorWithBuffer
    /\ audioChunk' = <<>>
    /\ history' = NoHistory
    /\ UNCHANGED notProcessorVars

\* onaudioprocess delivers the frame inputBuffer; mockConfidence is what
\* processWakeWord computes if the frame is classified
onaudioprocess(inputBuffer, mockConfidence) ==
    /\ processor.scriptProcessor
    /\ history.total + Len(inputBuffer) <= MaxWritten
    /\ IF ~processor.isListening
       THEN UNCHANGED <<processor, audioChunk, history>>
       ELSE LET p == processAudioBufferWrite(processor, inputBuffer)
                voiced == hasVoiceActivity(inputBuffer)
            IN /\ processor' = p
               /\ audioChunk' = IF voiced THEN getAudioChunk(p) ELSE audioChunk
               /\ history' =
                      [history EXCEPT
                          !.written = LastN(@ \o inputBuffer, sampleRate),
                          !.total = @ + Len(inputBuffer),
                          !.classified = voiced,
                          !.mockConfidence =
                              IF voiced THEN mockConfidence ELSE 0,
                          !.reported =
                              voiced /\ processWakeWord(p, mockConfidence)]
    /\ UNCHANGED notProcessorVars

ProcessorInit ==
    /\ Init
    /\ config.useLocalProcessing
    /\ ~config.hasUrl
    /\ config.sensitivity = DefaultSensitivity

ProcessorNext ==
    \/ \E o \in InitializeOutcomes : ProcessorMediaSettles(o)
    \/ ProcessorStartDetection
    \/ ProcessorStopDetection
    \/ \E v \in SensitivityArguments : ProcessorSetSensitivity(v)
    \/ ProcessorCleanup
    \/ ProcessorConstruct
    \/ \E f \in Frames, c \in Confidences : onaudioprocess(f, c)

SpecProcessor == ProcessorInit /\ [][ProcessorNext]_vars

\* -------------------------------------------- the text matchers on their own
notMatcherVars == <<engineVars, processorVars, detector, serviceVars, app,
                    speech>>

\* speech recognition reports a longer transcript (an interim result grown
\* by one piece) and both matchers are applied to it
RecognitionResult(piece) ==
    /\ Len(transcript) < MaxPieces
    /\ transcript' = Append(transcript, piece)
    /\ matched' = Matches(transcript')
    /\ UNCHANGED notMatcherVars

\* a new utterance begins
RecognitionRestarts ==
    /\ transcript # <<>>
    /\ transcript' = <<>>
    /\ matched' = NoMatch
    /\ UNCHANGED notMatcherVars

MatcherInit ==
    /\ Init
    /\ config.useLocalProcessing
    /\ ~config.hasUrl
    /\ config.sensitivity = DefaultSensitivity

MatcherNext ==
    \/ \E piece \in Pieces : RecognitionResult(piece)
    \/ RecognitionRestarts

SpecMatcher == MatcherInit /\ [][MatcherNext]_vars

\* ------------------------------------------- WakeWordDetector on its own
notDetectorVars == <<engineVars, processorVars, matcherVars, serviceVars,
                     app, speech>>

\* the transcripts recognition.onresult is given here
ResultTranscripts ==
    {<<"orion">>, <<"Hey", "blank", "ORION", "comma">>,
     <<"orion", "meeting">>, <<"meeting">>}

\* App: the effect that starts wake word detection
DetectorStartListening ==
    /\ detector' = detectorStartListening(detector)
    /\ UNCHANGED notDetectorVars

\* App: the cleanup of that effect
DetectorStopListening ==
    /\ detector' = detectorStopListening(detector)
    /\ UNCHANGED notDetectorVars

\* App.handleLanguageChange
DetectorSetLanguage(language) ==
    /\ detector' = detectorSetLanguage(detector, language)
    /\ UNCHANGED notDetectorVars

\* recognition.onresult with one result
DetectorResult(pieces, resultConfidence) ==
    /\ detector.recognition \in {"started", "stopping"}
    /\ IF /\ detectWakeWord(onresultTranscript(Chars(pieces)))
          /\ resultConfidence >= confidenceThreshold
       THEN /\ detector.commandTimers < MaxDetectorTimers
            /\ detector' = [detector EXCEPT !.commandTimers = @ + 1,
                                            !.status = "Wake word detected"]
       ELSE UNCHANGED detector
    /\ UNCHANGED notDetectorVars

\* recognition.onerror (errors other than no-speech are reported)
DetectorError ==
    /\ detector.recognition \in {"started", "stopping"}
    /\ detector' = [detector EXCEPT !.status = "Wake word detection error"]
    /\ UNCHANGED notDetectorVars

\* recognition.onend: the recognition has ended, after stop() or by itself
DetectorEnds ==
    /\ detector.recognition \in {"started", "stopping"}
    /\ detector.isListening => detector.restartTimers < MaxDetectorTimers
    /\ detector' =
           [detector EXCEPT !.recognition = "idle",
                            !.restartTimers =
                                IF detector.isListening THEN @ + 1 ELSE @]
    /\ UNCHANGED notDetectorVars

\* the 1000 ms timer of onend fires
DetectorRestartTimerFires ==
    /\ detector.restartTimers > 0
    /\ detector' =
           detectorStartListening([detector EXCEPT !.restartTimers = @ - 1])
    /\ UNCHANGED notDetectorVars

\* the 500 ms timer of onresult fires
DetectorCommandTimerFires ==
    /\ detector.commandTimers > 0
    /\ detector' =
           switchToCommandMode([detector EXCEPT !.commandTimers = @ - 1])
    /\ UNCHANGED notDetectorVars

DetectorInit ==
    /\ Init
    /\ config.useLocalProcessing
    /\ ~config.hasUrl
    /\ config.sensitivity = DefaultSensitivity

DetectorNext ==
    \/ DetectorStartListening
    \/ DetectorStopListening
    \/ \E l \in Languages : DetectorSetLanguage(l)
    \/ \E t \in ResultTranscripts, c \in Confidences : DetectorResult(t, c)
    \/ DetectorError
    \/ DetectorEnds
    \/ DetectorRestartTimerFires
    \/ DetectorCommandTimerFires

SpecDetector == DetectorInit /\ [][DetectorNext]_vars

\* ------------------------------------------ WakeWordService on its own
\* One WakeWordService whose connect() and disconnect() are called by any
\* caller, in any order, at most MaxConnectCalls and MaxDisconnectCalls times.
notServiceVars == <<engineVars, processorVars, matcherVars, detector, app,
                    speech>>

\* connect() is called: it answers true at once through its guard, or
\* creates a socket and returns the promise that checkConnection polls
ServiceConnect ==
    /\ calls.connects < MaxConnectCalls
    /\ service' = connect(service)
    /\ LET guarded == service.isConnecting \/ service.ws = "OPEN"
       IN calls' = [calls EXCEPT
              !.connects = @ + 1,
              !.pending = IF guarded THEN @ ELSE @ + 1,
              !.trueOn = IF guarded THEN service.ws ELSE @,
              !.last = CASE service.ws = "OPEN"
                              /\ calls.last \in {"connectOnOpen",
                                                 "connectOnOpenAgain"}
                              -> "connectOnOpenAgain"
                         [] service.ws = "OPEN" -> "connectOnOpen"
                         [] OTHER -> "connect"]
    /\ UNCHANGED notServiceVars

\* disconnect() is called
ServiceDisconnect ==
    /\ calls.disconnects < MaxDisconnectCalls
    /\ service' = disconnect(service)
    /\ calls' = [calls EXCEPT
           !.disconnects = @ + 1,
           !.last = IF calls.last \in {"disconnect", "disconnectAgain"}
                    THEN "disconnectAgain" ELSE "disconnect"]
    /\ UNCHANGED notServiceVars

\* a checkConnection poll of a pending connect() sees the socket of the ws
\* field OPEN or CLOSED and resolves the promise
ServiceCheckConnection ==
    /\ calls.pending > 0
    /\ service.ws \in {"OPEN", "CLOSED"}
    /\ calls' = [calls EXCEPT
           !.pending = @ - 1,
           !.trueOn = IF service.ws = "OPEN" THEN "OPEN" ELSE @,
           !.last = "poll"]
    /\ UNCHANGED <<service, notServiceVars>>

\* the socket of the ws field opens
ServiceSocketOpens ==
    /\ service.ws = "CONNECTING"
    /\ service' = onopen([service EXCEPT !.ws = "OPEN"])
    /\ calls' = [calls EXCEPT !.last = "event"]
    /\ UNCHANGED notServiceVars

\* the socket of the ws field fails or is closed by the peer
ServiceSocketCloses ==
    /\ service.ws \in {"CONNECTING", "OPEN"}
    /\ LET s0 == [service EXCEPT !.ws = "CLOSED"]
       IN service' = onclose(IF service.ws = "CONNECTING"
                             THEN onerror(s0) ELSE s0)
    /\ calls' = [calls EXCEPT !.last = "event"]
    /\ UNCHANGED notServiceVars

\* an event of a socket the ws field no longer refers to: its handlers
\* still act on the service
ServiceOrphanEvent(kind) ==
    /\ LET o == service.orphans
       IN CASE kind = "closes" /\ o.closingC > 0 ->
                 service' = onclose(onerror(
                     [service EXCEPT !.orphans.closingC = @ - 1]))
            [] kind = "closes" /\ o.closingC = 0 /\ o.closingO > 0 ->
                 service' = onclose(
                     [service EXCEPT !.orphans.closingO = @ - 1])
            [] kind = "closes" /\ PendingCloses(service) = 0
                    /\ o.connecting > 0 ->
                 service' = onclose(onerror(
                     [service EXCEPT !.orphans.connecting = @ - 1]))
            [] kind = "closes" /\ PendingCloses(service) = 0
                    /\ o.connecting = 0 /\ o.open > 0 ->
                 service' = onclose(
                     [service EXCEPT !.orphans.open = @ - 1])
            [] kind = "opens" /\ o.connecting > 0 ->
                 service' = onopen(
                     [service EXCEPT !.orphans.connecting = @ - 1,
                                     !.orphans.open = @ + 1])
            [] OTHER -> FALSE
    /\ calls' = [calls EXCEPT !.last = "event"]
    /\ UNCHANGED notServiceVars

\* a reconnect timer fires: it calls connect() and drops the result
ServiceReconnectTimerFires ==
    /\ service.timers > 0
    /\ service' = connect([service EXCEPT
                      !.timers = @ - 1,
                      !.delay = IF service.timers = 1 THEN 0 ELSE @])
    /\ calls' = [calls EXCEPT !.last = "event"]
    /\ UNCHANGED notServiceVars

ServiceInit ==
    /\ Init
    /\ ~config.useLocalProcessing
    /\ config.hasUrl
    /\ config.sensitivity = DefaultSensitivity

ServiceNext ==
    \/ ServiceConnect
    \/ ServiceDisconnect
    \/ ServiceCheckConnection
    \/ ServiceSocketOpens
    \/ ServiceSocketCloses
    \/ \E k \in OrphanKinds : ServiceOrphanEvent(k)
    \/ ServiceReconnectTimerFires

SpecService == ServiceInit /\ [][ServiceNext]_vars

\* ------------------------------------------- the App that uses the hook
\* The App component (services/openai.ts) with the local configuration.  Its
\* effect has the dependencies [wakeWordEnabled, startWakeWorker,
\* stopWakeWorker]; startWakeWorker is a useCallback with isActive among its
\* dependencies, so it is a new function whenever isActive has changed.  When
\* a render has changed a dependency, React runs the cleanup of the last run
\* of the effect and then its body, both with the values of their own render
\* and with no other task in between.
notAppVars == <<processorVars, matcherVars, detector, serviceVars, speech>>

\* the effect has run for the state as it is: React runs it right after the
\* render that follows a state change, before any other task
EffectSettled ==
    /\ app.phase = "idle"
    /\ <<wakeWordEnabled, isActive>> = <<app.enabled, app.isActive>>

\* App.handleWakeWordToggle of the current render
handleWakeWordToggle ==
    /\ EffectSettled
    /\ IF ~wakeWordEnabled
       THEN /\ StartBody(isActive)
            /\ status' = StartStatus(isActive)
            /\ UNCHANGED <<hookVars, batteryVars>>
       ELSE /\ StopHead
            /\ StopTeardown
    /\ wakeWordEnabled' = ~wakeWordEnabled
    /\ UNCHANGED <<config, droppedMessages, app, notAppVars>>

\* a render has changed wakeWordEnabled or startWakeWorker: the cleanup of
\* the effect's last run calls stopWakeWorker
AppEffectCleanup ==
    /\ app.phase = "idle"
    /\ <<wakeWordEnabled, isActive>> # <<app.enabled, app.isActive>>
    /\ StopHead
    /\ StopTeardown
    /\ app' = [enabled |-> wakeWordEnabled, isActive |-> isActive,
               phase |-> "body"]
    /\ UNCHANGED <<config, droppedMessages, wakeWordEnabled, notAppVars>>

\* then the body of the effect runs: it calls the startWakeWorker of that
\* render when wakeWordEnabled is set
AppEffectBody ==
    /\ app.phase = "body"
    /\ IF app.enabled
       THEN /\ StartBody(app.isActive)
            /\ status' = StartStatus(app.isActive)
       ELSE UNCHANGED <<procVars, svcVars, status>>
    /\ app' = [app EXCEPT !.phase = "idle"]
    /\ UNCHANGED <<config, droppedMessages, hookVars, batteryVars,
                   wakeWordEnabled, notAppVars>>

AppInit ==
    /\ Init
    /\ config.useLocalProcessing
    /\ ~config.hasUrl
    /\ config.sensitivity = DefaultSensitivity

AppNext ==
    \/ handleWakeWordToggle
    \/ AppEffectCleanup
    \/ AppEffectBody
    \/ \E p \in ProcIds, o \in InitializeOutcomes :
          EffectSettled /\ MediaSettles(p, o)
    \/ \E o \in {"resolved", "rejected"} :
          EffectSettled /\ BatterySettles(o)

SpecApp == AppInit /\ [][AppNext]_vars

\* ------------------------------------------------------- the useSpeech hook
\* startListening: a recognition the ref holds is stopped, a new one is
\* created with the language of the closure and started
speechStartListening(h, language) ==
    [h EXCEPT !.recognition = "starting",
              !.lang = getLanguageCode(language),
              !.detached = @ + (IF h.recognition \in {"starting", "running"}
                                THEN 1 ELSE 0)]

\* stopListening: the recognition the ref holds is stopped and the ref
\* cleared
speechStopListening(h) ==
    IF h.recognition = "null"
    THEN h
    ELSE [h EXCEPT !.recognition = "null",
                   !.detached = @ + (IF h.recognition \in {"starting", "running"}
                                     THEN 1 ELSE 0)]

\* the effect with the dependencies [language, listening, startListening,
\* stopListening], run after a render that changed one of them
languageEffect(h) ==
    LET seen == [h EXCEPT !.deps = [language |-> h.language,
                                    listening |-> h.listening]]
    IN IF h.recognition # "null" /\ h.listening
       THEN [speechStopListening(seen) EXCEPT !.restartTimers = @ + 1]
       ELSE seen

notSpeechVars == <<engineVars, processorVars, matcherVars, detector,
                   serviceVars, app>>

\* the consumer calls startListening
SpeechStartListening ==
    /\ speech.detached < MaxDetached
    /\ speech' = speechStartListening(speech, speech.language)
    /\ UNCHANGED notSpeechVars

\* the consumer calls stopListening
SpeechStopListening ==
    /\ speech.detached < MaxDetached
    /\ speech' = speechStopListening(speech)
    /\ UNCHANGED notSpeechVars

\* recognition.onstart of the recognition the ref holds
SpeechStarts ==
    /\ speech.recognition = "starting"
    /\ speech' = [speech EXCEPT !.recognition = "running",
                                !.listening = TRUE]
    /\ UNCHANGED notSpeechVars

\* recognition.onend or onerror of the recognition the ref holds: it ended
\* by itself
SpeechEnds ==
    /\ speech.recognition \in {"starting", "running"}
    /\ speech' = [speech EXCEPT !.recognition = "ended",
                                !.listening = FALSE]
    /\ UNCHANGED notSpeechVars

\* recognition.onend of a recognition that was stopped and replaced or
\* dropped
SpeechDetachedEnds ==
    /\ speech.detached > 0
    /\ speech' = [speech EXCEPT !.detached = @ - 1, !.listening = FALSE]
    /\ UNCHANGED notSpeechVars

\* the consumer renders the hook with another language
SpeechLanguageChanges(language) ==
    /\ language # speech.language
    /\ speech' = [speech EXCEPT !.language = language]
    /\ UNCHANGED notSpeechVars

\* React runs the effect
SpeechLanguageEffect ==
    /\ speech.deps # [language |-> speech.language,
                      listening |-> speech.listening]
    /\ speech.detached < MaxDetached
    /\ speech.restartTimers < MaxSpeechTimers
    /\ speech' = languageEffect(speech)
    /\ UNCHANGED notSpeechVars

\* the 100 ms timer of the effect fires: startListening of the render the
\* effect ran in
SpeechRestartTimerFires ==
    /\ speech.restartTimers > 0
    /\ speech.detached < MaxDetached
    /\ speech' = speechStartListening(
                     [speech EXCEPT !.restartTimers = @ - 1],
                     speech.deps.language)
    /\ UNCHANGED notSpeechVars

SpeechInit == AppInit

SpeechNext ==
    \/ SpeechStartListening
    \/ SpeechStopListening
    \/ SpeechStarts
    \/ SpeechEnds
    \/ SpeechDetachedEnds
    \/ \E l \in Languages : SpeechLanguageChanges(l)
    \/ SpeechLanguageEffect
    \/ SpeechRestartTimerFires

SpecSpeech == SpeechInit /\ [][SpeechNext]_vars

\* ------------------------------------------------ teardown of both classes
\* cleanup() is called on the processor, whatever its state: before
\* initialize() has returned, while it holds the capture objects, or after
\* it was released
TeardownCleanup ==
    /\ calls.cleanups < MaxCleanupCalls
    /\ processor' = cleanup(processor)
    /\ calls' = [calls EXCEPT !.cleanups = @ + 1]
    /\ UNCHANGED <<engineVars, matcherVars, detector, service, audioChunk,
                   history, app, speech>>

\* the two objects share no state: the processor is exercised until its
\* cleanup() calls are made, the service after that
ProcessorTurn == calls.cleanups < MaxCleanupCalls
ServiceTurn == calls.cleanups = MaxCleanupCalls

TeardownNext ==
    \/ \E o \in InitializeOutcomes : ProcessorTurn /\ ProcessorMediaSettles(o)
    \/ ProcessorTurn /\ ProcessorStartDetection
    \/ TeardownCleanup
    \/ ServiceTurn /\ ServiceConnect
    \/ ServiceTurn /\ ServiceDisconnect
    \/ ServiceTurn /\ ServiceCheckConnection
    \/ ServiceTurn /\ ServiceSocketOpens
    \/ ServiceTurn /\ ServiceSocketCloses
    \/ \E k \in OrphanKinds : ServiceTurn /\ ServiceOrphanEvent(k)
    \/ ServiceTurn /\ ServiceReconnectTimerFires

SpecTeardown == ServiceInit /\ [][TeardownNext]_vars

\* ---------------------------------------------------------------- claims
\* what the engine holds: capture objects, live sockets, timers
CaptureSessions == {i \in ProcIds : procs[i].mediaStream}

HoldsNoResources ==
    /\ \A i \in ProcIds : ~HoldsCapture(procs[i])
    /\ \A i \in SvcIds : LiveSockets(svcs[i]) = 0 /\ svcs[i].timers = 0
    /\ ~detectionTimeout
    /\ ~batteryMonitor
    /\ ~batteryLeaked

\* C1: a qualifying detection fires onWakeWordDetected once per cooldown
\* window; while the detection timeout armed by a qualifying detection is
\* pending, a second qualifying detection fires no further callback.
C1_OnceCallbackPerCooldownWindow ==
    [][(detectionTimeout /\ confidence >= config.sensitivity)
          => ~(/\ windowCalls' > windowCalls
               /\ confidence' >= config.sensitivity)]_vars

\* C2: when stopWakeWorker() returns, whatever the state it was called in,
\* the engine is idle and holds no capture object, no live socket and no
\* pending detection, battery-monitor or reconnect timer.
C2_StopReleasesEverything ==
    [][stopWakeWorker => (~isActive /\ ~isDetected /\ HoldsNoResources)']_vars

\* C3: at most one microphone capture session exists at any time, also when
\* startWakeWorker() is called again while an earlier call is still awaiting
\* initialization.
C3_AtMostOneCaptureSession == Cardinality(CaptureSessions) <= 1

\* C4: a call of startWakeWorker() while the engine is active, through any
\* reference a consumer holds (the current one, or the one the App's Ctrl+O
\* key handler reaches), creates no processor and no service, acquires no
\* stream and reports no failure.
C4_StartWhileActiveIsNoOp ==
    [][(isActive /\ (startWakeWorker(isActive) \/ handleKeyDownCtrlO))
          => /\ UNCHANGED <<procVars, svcVars, isActive>>
             /\ status' \notin {"Failed to start wake word detection",
                                "Start failed"}]_vars

\* C5: when a startWakeWorker() call that was pending while stopWakeWorker()
\* ran completes, it does not activate the engine and leaves no microphone
\* stream and no connection behind.
C5_StopNotUndoneByPendingStart ==
    [][/\ \A p \in ProcIds :
              (/\ procs[p].phase = "awaiting"
               /\ procs[p].stopRequested
               /\ procs'[p].phase # "awaiting")
                 => (isActive' = isActive /\ ~procs'[p].mediaStream)
       /\ \A i \in SvcIds :
              (/\ svcs[i].connectPending
               /\ svcs[i].stopRequested
               /\ ~svcs'[i].connectPending)
                 => (isActive' = isActive /\ LiveSockets(svcs'[i]) = 0)]_vars

\* C6, as claimed: once maxReconnectAttempts closes in a row have happened
\* the terminal status has been reported and no reconnect is scheduled or
\* in progress.
C6_TerminalAfterNCloses ==
    \A i \in SvcIds :
        svcs[i].closes >= maxReconnectAttempts
            => /\ svcs[i].timers = 0
               /\ LiveSockets(svcs[i]) = 0
               /\ status = "Max reconnection attempts reached"

\* C6, amended: a close that follows fewer than maxReconnectAttempts closes
\* in a row schedules exactly one reconnect and reports "Reconnecting...";
\* a close that follows maxReconnectAttempts closes in a row (the close of
\* the last permitted reconnect attempt) reports the terminal status and
\* schedules nothing; after it the service has no timer and no socket left.
C6_TerminalAfterBudgetExhausted ==
    /\ [][\A i \in SvcIds :
              svcs'[i].closes = svcs[i].closes + 1
                  => IF svcs[i].closes >= maxReconnectAttempts
                     THEN /\ status' = "Max reconnection attempts reached"
                          /\ svcs'[i].timers = svcs[i].timers
                          /\ LiveSockets(svcs'[i]) = 0
                     ELSE /\ status' = "Reconnecting..."
                          /\ svcs'[i].timers = svcs[i].timers + 1]_vars
    /\ [](\A i \in SvcIds :
              svcs[i].closes > maxReconnectAttempts
                  => /\ svcs[i].timers = 0
                     /\ LiveSockets(svcs[i]) = 0
                     /\ PendingCloses(svcs[i]) = 0)

\* the terminal status has been reported after the whole budget was used
C6_Witness ==
    \E i \in SvcIds :
        /\ svcs[i].closes = maxReconnectAttempts + 1
        /\ svcs[i].reconnectAttempts = maxReconnectAttempts
        /\ status = "Max reconnection attempts reached"

\* C7: after disconnect() the service holds no socket and creates none, and
\* the close that disconnect() itself caused starts no reconnection.
C7_DisconnectIsFinal ==
    \A i \in SvcIds :
        svcs[i].disconnectCalled
            => /\ svcs[i].ws = "null"
               /\ LiveSockets(svcs[i]) = 0
               /\ svcs[i].reconnectAttempts = 0

\* C8: disconnect() cancels the reconnect timer that is pending when it is
\* called.
C8_DisconnectCancelsReconnectTimer ==
    [][\A i \in SvcIds :
           (~svcs[i].disconnectCalled /\ svcs'[i].disconnectCalled)
               => svcs'[i].timers = 0]_vars

\* C9: reconnectAttempts is 0 from the moment a socket opens for as long as
\* it is open, so the close of an open socket starts the backoff at attempt
\* 1 and schedules a reconnect.
C9_AttemptsResetOnOpen ==
    /\ [](\A i \in SvcIds :
              svcs[i].ws = "OPEN" => svcs[i].reconnectAttempts = 0)
    /\ [][\A i \in SvcIds :
              (svcs[i].ws = "OPEN" /\ svcs'[i].ws = "CLOSED")
                  => /\ svcs'[i].reconnectAttempts = 1
                     /\ svcs'[i].timers = svcs[i].timers + 1]_vars

\* the socket of a started engine has opened again after a reconnect
C9_Witness ==
    \E i \in SvcIds :
        /\ i = wakeWordServiceRef
        /\ isActive
        /\ svcs[i].ws = "OPEN"
        /\ status = "Connected to wake word service"

\* C10: onWakeWordDetected is invoked only with a confidence that is at
\* least the configured sensitivity, for local and for remote detections
\* (the callback is invoked with the confidence the detected state shows).
C10_CallbackOnlyAboveSensitivity ==
    isDetected => confidence >= config.sensitivity

\* C11: WakeWordAudioProcessor.setSensitivity(v) replaces wakeWordThreshold
\* and nothing else of the processor (the capture pipeline is neither
\* stopped nor initialised again), and once setSensitivity has been called
\* on a processor every chunk it classifies is reported exactly when its
\* confidence exceeds the value passed last.
C11_SetSensitivityTakesEffect ==
    [][/\ \A v \in SensitivityArguments :
              ProcessorSetSensitivity(v)
                  => processor' = [processor EXCEPT !.wakeWordThreshold = v]
       /\ (/\ history.lastSet # 0
           /\ history'.total > history.total
           /\ history'.classified)
              => (history'.reported
                     <=> history'.mockConfidence > history.lastSet)]_vars

\* after setSensitivity(0.3) on a processor that holds its capture pipeline
\* and is listening, a chunk of confidence 0.7, which the default threshold
\* rejects, was reported
C11_Witness ==
    /\ history.lastSet = 30
    /\ history.mockConfidence = DefaultThreshold
    /\ history.reported
    /\ processor.isListening
    /\ processor.scriptProcessor
    /\ history.total > sampleRate

\* the chunk of a history: the samples written last, preceded by zeros
\* when fewer than chunkSize have been written
ExpectedChunk(h) ==
    [i \in 1..(sampleRate - Len(h.written)) |-> 0] \o h.written

\* C14: whenever getAudioChunk is called after a frame has been written, it
\* returns the chunkSize samples written last, in the order they were
\* written, also after bufferIndex has wrapped any number of times.
C14_ChunkIsLastSamplesWritten ==
    [][(/\ history'.total > history.total
        /\ history'.classified
        /\ history'.total >= sampleRate)
               => /\ Len(history'.written) = sampleRate
                  /\ audioChunk' = history'.written]_vars

\* a chunk with sound in it was taken after bufferIndex wrapped, and the
\* chunk spans the wrap
C14_Witness ==
    /\ history.total > Len(processor.circularBuffer)
    /\ audioChunk = history.written
    /\ \E i, j \in 1..sampleRate : audioChunk[i] = 1 /\ audioChunk[j] = 0
    /\ processor.bufferIndex \in 1..(sampleRate - 1)

\* C15: when fewer than chunkSize samples have been written since the
\* processor was constructed, getAudioChunk returns chunkSize entries: the
\* samples written so far, in order, at the end, and zeros before them.
C15_ChunkIsZeroPadded ==
    [][(/\ history'.total > history.total
        /\ history'.classified
        /\ history'.total < sampleRate)
               => /\ Len(audioChunk') = sampleRate
                  /\ Len(history'.written) = history'.total
                  /\ \A i \in 1..sampleRate :
                         audioChunk'[i] =
                             IF i <= sampleRate - history'.total
                             THEN 0
                             ELSE history'.written[
                                      i - (sampleRate - history'.total)]]_vars

\* a chunk was taken when two samples had been written, the first silent
C15_Witness ==
    /\ history.total = 2
    /\ history.total < sampleRate
    /\ history.written = <<0, 1>>
    /\ audioChunk = ExpectedChunk(history)

\* C12: while the engine is idle (not active, no start in progress: before
\* any successful start, or after stopWakeWorker()) handleWakeWordDetection
\* does not run, whatever audio frame or transport message arrives.
C12_NoDetectionWhileIdle ==
    [][(~isActive /\ PendingStarts = 0)
          => \A c \in Confidences : ~handleWakeWordDetection(c)]_vars

\* C18: an unparseable payload is dropped, the failure is reported through
\* onStatusChange, and the connection and the detection state stay as they
\* are.
C18_MalformedMessageReported ==
    [][droppedMessages' > droppedMessages
          => /\ status' = "Failed to parse wake word response"
             /\ UNCHANGED <<svcVars, hookVars>>]_vars

\* C19: with useLocalProcessing = false and no webSocketUrl, startWakeWorker()
\* starts the local pipeline (a processor is created and initialised),
\* creates no WakeWordService and reports no failure.
C19_NoUrlForcesLocalMode ==
    [][(/\ ~config.useLocalProcessing
        /\ ~config.hasUrl
        /\ ~isActive
        /\ startWakeWorker(isActive))
          => /\ audioProcessorRef' # 0
             /\ procs'[audioProcessorRef'].phase = "awaiting"
             /\ UNCHANGED svcVars
             /\ status' # "Failed to start wake word detection"]_vars

\* C20: when initialize() fails, at getUserMedia or at a later step of the
\* setup, startWakeWorker() resolves false, isActive is left as it was, and
\* the processor holds no stream, no AudioContext and no processor node.
C20_FailedInitializeHoldsNothing ==
    [][\A p \in ProcIds :
           (/\ procs[p].phase = "awaiting"
            /\ procs'[p].phase # "awaiting"
            /\ status' = "Failed to start wake word detection")
               => /\ isActive' = isActive
                  /\ batteryPromises' = batteryPromises
                  /\ ~HoldsCapture(procs'[p])]_vars

\* the words of a string: its maximal runs of characters other than
\* whitespace
RECURSIVE WordsFrom(_, _)
WordsFrom(str, word) ==
    IF str = <<>>
    THEN IF word = <<>> THEN <<>> ELSE <<word>>
    ELSE IF IsWhitespace(Head(str))
         THEN (IF word = <<>> THEN <<>> ELSE <<word>>)
                  \o WordsFrom(Tail(str), <<>>)
         ELSE WordsFrom(Tail(str), Append(word, Head(str)))

Words(str) == WordsFrom(str, <<>>)

\* the words of the phrase are consecutive words of the string
OccursAsWholeWords(phrase, str) ==
    LET ws == Words(str)
        pw == Words(phrase)
    IN \E k \in 1..(Len(ws) - Len(pw) + 1) :
           SubSeq(ws, k, k + Len(pw) - 1) = pw

\* C16: for every transcript in which a wake phrase of WakeWordDetector
\* occurs as whole word(s) once the transcript is lower-cased and its
\* punctuation stripped (whitespace of any length separating the words),
\* the matcher reports a match, both as recognition.onresult calls it and
\* called on the transcript as it is.
C16_WholeWordPhraseMatches ==
    (\E phrase \in DetectorWakeWords :
         OccursAsWholeWords(phrase,
                            StripPunctuation(toLowerCase(Chars(transcript)))))
        => /\ matched.detector
           /\ detectWakeWord(Chars(transcript))

\* "Hey ORION," has been recognised and matched (the phrase is not in lower
\* case and punctuation follows it)
C16_Witness ==
    /\ transcript = <<"Hey", "blank", "ORION", "comma">>
    /\ matched.detector

\* a wake phrase occurs in the lower-cased text, and each of its occurrences
\* has a word character next to it on at least one side
InsideLongerWordOnly(str) ==
    LET text == toLowerCase(str)
        Occurrences(word) ==
            {k \in 1..(Len(text) - Len(word) + 1) :
                 SubSeq(text, k, k + Len(word) - 1) = word}
    IN /\ \E word \in DetectorWakeWords : Occurrences(word) # {}
       /\ \A word \in DetectorWakeWords : \A k \in Occurrences(word) :
              ~(WordBoundary(text, k) /\ WordBoundary(text, k + Len(word)))

\* C17: when a wake phrase occurs in a transcript only inside a longer word,
\* neither the matcher of WakeWordDetector nor the one of useSpeech reports
\* a match.
C17_NoMatchInsideLongerWord ==
    InsideLongerWordOnly(Chars(transcript))
        => (~matched.detector /\ ~matched.speech)

\* C13: a change of language made while the recogniser is listening starts
\* a stop and restart of the pipeline: when the call that changes the
\* language returns, recognition has been stopped or a restart is pending.
C13_LanguageChangeRestarts ==
    [][\A l \in Languages :
           (/\ detector.isListening
            /\ detector.recognition = "started"
            /\ l # detector.language
            /\ DetectorSetLanguage(l))
               => \/ detector'.recognition # "started"
                  \/ detector'.restartTimers > detector.restartTimers]_vars

\* ------------------------------------------------------ reconnect delays
\* C23: the k-th close in a row of a service (k = 1..maxReconnectAttempts,
\* counted from the last open or disconnect) sets exactly one reconnect
\* timer, and its delay is k * reconnectDelay, longer than the delay of
\* the attempt before
C23_ReconnectDelayGrowsLinearly ==
    [][\A i \in SvcIds :
         (/\ svcs'[i].closes = svcs[i].closes + 1
          /\ svcs'[i].closes =< maxReconnectAttempts)
         => /\ svcs'[i].timers = svcs[i].timers + 1
            /\ svcs'[i].delay = svcs'[i].closes * reconnectDelay
            /\ svcs'[i].delay > svcs[i].closes * reconnectDelay]_vars

\* the last permitted attempt is pending with its delay of 5 * reconnectDelay
C23_Witness ==
    \E i \in SvcIds :
        /\ svcs[i].closes = maxReconnectAttempts
        /\ svcs[i].timers = 1
        /\ svcs[i].delay = maxReconnectAttempts * reconnectDelay

\* ------------------------------------------------- connect() and its result
\* C21: connect() on a service whose socket is OPEN, from a caller or from a
\* reconnect timer, changes nothing: no socket is created and ws,
\* reconnectAttempts and isConnecting stay as they are; a caller is
\* answered true
C21_ConnectWhileOpenIsNoOp ==
    [][(/\ service.ws = "OPEN"
        /\ \/ calls'.connects > calls.connects
           \/ service'.timers < service.timers)
       => /\ service'.ws = "OPEN"
          /\ service'.orphans = service.orphans
          /\ service'.reconnectAttempts = service.reconnectAttempts
          /\ service'.isConnecting = service.isConnecting
          /\ calls'.connects > calls.connects
                => /\ calls'.trueOn = "OPEN"
                   /\ calls'.pending = calls.pending]_vars

\* connect() was called twice in a row on an open socket
C21_Witness ==
    /\ calls.last = "connectOnOpenAgain"
    /\ service.ws = "OPEN"
    /\ LiveSockets(service) = 1

\* C26: a service never has more than one socket that is CONNECTING or
\* OPEN, and a socket in one of these states is the one in its ws field
C26_AtMostOneLiveSocket ==
    /\ LiveSockets(service) =< 1
    /\ service.orphans.connecting = 0
    /\ service.orphans.open = 0

\* C30: connect() answers true only on a socket that is OPEN at that moment
C30_TrueOnlyOnOpenSocket == calls.trueOn \in {"none", "OPEN"}

\* ------------------------------------------------------------- teardown
\* C24: cleanup() leaves the processor with no capture object and not
\* listening, and disconnect() leaves the service with ws null, isConnecting
\* false and reconnectAttempts 0, whatever state they are called in; called
\* on an object that is already released (never initialised, or torn down by
\* the call before) they change nothing
C24_TeardownIsIdempotent ==
    [][/\ calls'.cleanups > calls.cleanups
          => /\ ~HoldsCapture(processor')
             /\ ~processor'.isListening
             /\ (~HoldsCapture(processor) /\ ~processor.isListening)
                    => processor' = processor
             /\ cleanup(processor') = processor'
       /\ calls'.disconnects > calls.disconnects
          => /\ service'.ws = "null"
             /\ ~service'.isConnecting
             /\ service'.reconnectAttempts = 0
             /\ (\/ calls.last \in {"disconnect", "disconnectAgain"}
                 \/ service = NewService)
                    => /\ service'.orphans = service.orphans
                       /\ service'.timers = service.timers
             /\ disconnect(service') = service']_vars

\* cleanup() was called twice on a processor whose initialize() never
\* returned, and disconnect() twice in a row on the service
C24_Witness ==
    /\ calls.cleanups = MaxCleanupCalls
    /\ processor.phase = "awaiting"
    /\ calls.last = "disconnectAgain"
    /\ service.ws = "null"

\* ------------------------------------------ WakeWordDetector restart
\* C25: when the restart timer of onend fires while isListening is still
\* true and the recognition has ended, recognition.start() is called and the
\* recognition runs again
C25_RestartsAfterEnd ==
    [][(/\ detector'.restartTimers < detector.restartTimers
        /\ detector.isListening
        /\ detector.recognition = "idle")
       => detector'.recognition = "started"]_vars

\* ---------------------------------------------------------- the cooldown
\* C22: isDetected is set only while the cooldown timer is pending; a
\* detection is followed by a state with isDetected false and confidence 0;
\* and isDetected is cleared either by the timer, which leaves isActive as it
\* is, or by stopWakeWorker
C22_CooldownEnds ==
    /\ [](isDetected => detectionTimeout)
    /\ isDetected ~> (~isDetected /\ confidence = 0)
    /\ [][(isDetected /\ ~isDetected')
            => /\ confidence' = 0
               /\ \/ isActive' = isActive
                  \/ status' = "Wake word detection stopped"]_vars

\* the cooldown of a detection has run out on an active engine: the status
\* is still the one the detection reported
C22_Witness ==
    /\ isActive
    /\ ~isDetected
    /\ confidence = 0
    /\ ~detectionTimeout
    /\ status = "Wake word detected"

C27_ActiveUntilDisabled ==
    [][(isActive /\ wakeWordEnabled /\ wakeWordEnabled') => isActive']_vars

\* C28: the language effect of useSpeech stops the recognition and sets its
\* restart timer only when the language differs from the one it ran with
\* last
C28_EffectRestartsOnlyOnLanguageChange ==
    [][(/\ speech.recognition # "null"
        /\ speech'.recognition = "null"
        /\ speech'.restartTimers > speech.restartTimers)
       => speech.language # speech.deps.language]_vars

====
